---- MODULE Spec2Model ----
(***************************************************************************)
(* LIRS cache replacement engine (src/LIRS.py), class LIRS.                *)
(*                                                                         *)
(* The engine object is modelled field by field.  Entry objects live in    *)
(* `entries`, a heap indexed by key: S and Q hold keys, and the Entry an   *)
(* OrderedDict maps a key to is entries[key], so a flag or residency       *)
(* change is seen through both S and Q, as with the shared Python object.  *)
(* A fresh Entry is created only for a key that is in neither S nor Q, so  *)
(* at most one Entry per key is ever reachable from the engine.            *)
(*                                                                         *)
(* maxhirs, maxlirs and maxSlength are Python floats.  They are kept here  *)
(* as exact multiples of 1/Scale (hundredths), and every comparison        *)
(* against lirs, hirs or len(S) is done in hundredths.  hirPercent and     *)
(* sizeLimitFactor are drawn from values for which the float product of    *)
(* the source is exact.                                                    *)
(*                                                                         *)
(* A failed assert, or a pop/peek of an empty OrderedDict, raises: the     *)
(* engine keeps the fields it had at that point, err names the source line *)
(* and no further reference is processed (main does not catch).            *)
(*                                                                         *)
(* Observation variables, not fields of the engine: ret is what the last   *)
(* call returned, calls and returnedFalse count the calls made and the     *)
(* calls that returned False, lastArg is the key of the last call, and     *)
(* evicted / shrunk name the key the last call evicted from Q / removed    *)
(* from S in shrink (None when it did not), and branch names the branch of  *)
(* processReference the last call took.                                    *)
(***************************************************************************)
EXTENDS Integers, Sequences, FiniteSets, TLC

\* flags
LIR == 0
HIR == 1

\* constants of the source
MIN_CACHE_SIZE == 200
DEFAULT_STACK_FACTOR == 2
DEFAULT_HIR_PCT == 1
MIN_HIR_PCT == 1
MAX_HIR_PCT == 100
MIN_HIR_RESIDENT == 2

\* hirPercent*0.01 : quantities derived from it are kept in hundredths
Scale == 100

\* Python's None (initial lastKey); block keys are positive
None == 0

\* bounds of the model
NumKeys == 5
MaxRefs == 6
MaxCacheSize == 4

\* scaled-down cache sizes (the smallest leaves room for one LIR block),
\* hirPercent values and sizeLimitFactor values
\* (sizeLimitFactor in hundredths: 100 is 1.0, 200 is DEFAULT_STACK_FACTOR)
CacheSizes == (MIN_HIR_RESIDENT + 1)..MaxCacheSize
HirPercents == {MIN_HIR_PCT, 75, MAX_HIR_PCT}
StackFactors == {Scale, DEFAULT_STACK_FACTOR * Scale}
BlockKeys == 1..NumKeys

VARIABLES c, lirs, hirs, maxhirs, maxlirs, S, Q, entries, refs, misses,
          lastKey, recordLirs, pruneCount, sizeLimitFactor, maxSlength,
          err, ret, calls, returnedFalse, lastArg, evicted, shrunk, branch

vars == <<c, lirs, hirs, maxhirs, maxlirs, S, Q, entries, refs, misses,
          lastKey, recordLirs, pruneCount, sizeLimitFactor, maxSlength,
          err, ret, calls, returnedFalse, lastArg, evicted, shrunk, branch>>

Max(a, b) == IF a >= b THEN a ELSE b

\* keys of an OrderedDict kept as a sequence, LRU first
KeysOf(od) == {od[i] : i \in 1..Len(od)}

\* del od[key]
Without(od, key) == SelectSeq(od, LAMBDA x : x # key)

\* od[key] = value : a key already present keeps its position
Assign(od, key) == IF key \in KeysOf(od) THEN od ELSE Append(od, key)

\* class Entry
Entry(key) == [key |-> key, flag |-> HIR, resident |-> TRUE]

Ok(self) == self.err = "none"
Raise(self, where) == [self EXCEPT !.err = where]

\* mutant of LIRS__init__: maxlirs is the whole cache, maxhirs not subtracted
LIRS__init__AllLirs(cacheSize, factor, hirPercent) ==
    LET mh == Max(MIN_HIR_RESIDENT * Scale, hirPercent * cacheSize) IN
    [c |-> cacheSize, lirs |-> 0, hirs |-> 0,
     maxhirs |-> mh, maxlirs |-> cacheSize * Scale,
     S |-> <<>>, Q |-> <<>>, entries |-> <<>>,
     refs |-> 0, misses |-> 0, lastKey |-> None, recordLirs |-> 0,
     pruneCount |-> 0, sizeLimitFactor |-> factor,
     maxSlength |-> factor * cacheSize,
     err |-> "none", hit |-> FALSE, ret |-> "nocall",
     evicted |-> None, shrunk |-> None]

\* LIRS.__init__ ; sizeLimitFactor in hundredths
LIRS__init__(cacheSize, factor, hirPercent) ==
    LET mh == Max(MIN_HIR_RESIDENT * Scale, hirPercent * cacheSize) IN
    [c |-> cacheSize, lirs |-> 0, hirs |-> 0,
     maxhirs |-> mh, maxlirs |-> cacheSize * Scale - mh,
     S |-> <<>>, Q |-> <<>>, entries |-> <<>>,
     refs |-> 0, misses |-> 0, lastKey |-> None, recordLirs |-> 0,
     pruneCount |-> 0, sizeLimitFactor |-> factor,
     maxSlength |-> factor * cacheSize,
     err |-> "none", hit |-> FALSE, ret |-> "nocall",
     evicted |-> None, shrunk |-> None]

\* remove entry from S, regardless of location
removeFromS(self, key) ==
    IF ~Ok(self) THEN self
    ELSE IF key \notin KeysOf(self.S) THEN Raise(self, "KeyError187")
    ELSE LET entry == self.entries[key] IN
         [self EXCEPT !.S = Without(@, key),
                      !.lirs = IF entry.flag = LIR /\ entry.resident
                               THEN @ - 1 ELSE @]

\* remove entry from Q, regardless of location
removeFromQ(self, key) ==
    IF ~Ok(self) THEN self
    ELSE IF key \notin KeysOf(self.Q) THEN Raise(self, "KeyError193")
    ELSE LET s1 == [self EXCEPT !.Q = Without(@, key), !.hirs = @ - 1] IN
         IF s1.entries[key].resident THEN s1 ELSE Raise(s1, "assert195")

\* mutant of addSentryMRU: the entry is inserted at the LRU end of S
addSentryMRUAtLRU(self, key) ==
    IF ~Ok(self) THEN self
    ELSE LET entry == self.entries[key] IN
         [self EXCEPT !.S = IF key \in KeysOf(@) THEN @ ELSE <<key>> \o @,
                      !.lirs = IF entry.flag = LIR /\ entry.resident
                               THEN @ + 1 ELSE @]

\* insert key -> entry to the MRU position of S
addSentryMRU(self, key) ==
    IF ~Ok(self) THEN self
    ELSE LET entry == self.entries[key] IN
         [self EXCEPT !.S = Assign(@, key),
                      !.lirs = IF entry.flag = LIR /\ entry.resident
                               THEN @ + 1 ELSE @]

\* mutant of addQentryMRU: the insertion is not counted in hirs
addQentryMRUUncounted(self, key) ==
    IF ~Ok(self) THEN self
    ELSE [self EXCEPT !.Q = Assign(@, key)]

\* insert key -> entry to the MRU position of Q
addQentryMRU(self, key) ==
    IF ~Ok(self) THEN self
    ELSE [self EXCEPT !.Q = Assign(@, key), !.hirs = @ + 1]

\* mutant of popSentryLRU: popping a LIR entry does not decrement lirs
popSentryLRUKeepsLirs(self) ==
    IF ~Ok(self) THEN self
    ELSE IF self.S = <<>> THEN Raise(self, "KeyError210")
    ELSE [self EXCEPT !.S = Tail(@)]

\* pops the LRU entry from S ; the popped key is Head(self.S)
popSentryLRU(self) ==
    IF ~Ok(self) THEN self
    ELSE IF self.S = <<>> THEN Raise(self, "KeyError210")
    ELSE LET entry == self.entries[Head(self.S)] IN
         [self EXCEPT !.S = Tail(@),
                      !.lirs = IF entry.flag = LIR /\ entry.resident
                               THEN @ - 1 ELSE @]

\* mutant of popQentryLRU: the entry at the MRU end is popped
popQentryLRUPopsMRU(self) ==
    IF ~Ok(self) THEN self
    ELSE IF self.Q = <<>> THEN Raise(self, "KeyError217")
    ELSE [self EXCEPT !.Q = SubSeq(@, 1, Len(@) - 1), !.hirs = @ - 1]

\* pops the LRU entry from Q ; the popped key is Head(self.Q)
popQentryLRU(self) ==
    IF ~Ok(self) THEN self
    ELSE IF self.Q = <<>> THEN Raise(self, "KeyError217")
    ELSE [self EXCEPT !.Q = Tail(@), !.hirs = @ - 1]

\* mutant of migrateLIRtoHIR: the migrated entry keeps its LIR flag
migrateLIRtoHIRKeepsFlag(self) ==
    IF ~Ok(self) THEN self
    ELSE LET s1 == popSentryLRU(self) IN
         IF ~Ok(s1) THEN s1
         ELSE LET key == Head(self.S)
                  entry == s1.entries[key]
              IN IF ~(entry.flag = LIR /\ entry.resident)
                 THEN Raise(s1, "assert144")
                 ELSE addQentryMRU(s1, key)

\* remove the LRU entry from S (should be LIR),
\* change its flag to HIR and put it in the MRU position of Q
migrateLIRtoHIR(self) ==
    IF ~Ok(self) THEN self
    ELSE LET s1 == popSentryLRU(self) IN
         IF ~Ok(s1) THEN s1
         ELSE LET key == Head(self.S)
                  entry == s1.entries[key]
              IN IF ~(entry.flag = LIR /\ entry.resident)
                 THEN Raise(s1, "assert144")
                 ELSE addQentryMRU([s1 EXCEPT !.entries[key].flag = HIR], key)

\* the while loop of prune
RECURSIVE pruneLoop(_)
pruneLoop(self) ==
    IF ~Ok(self) \/ self.S = <<>> THEN self
    ELSE LET key == Head(self.S)
             entryLRU == self.entries[key]
         IN IF entryLRU.flag = LIR THEN self
            ELSE LET s1 == popSentryLRU(self) IN
                 IF entryLRU.resident /\ key \notin KeysOf(s1.Q)
                 THEN Raise(s1, "assert161")
                 ELSE IF ~entryLRU.resident /\ key \in KeysOf(s1.Q)
                 THEN Raise(s1, "assert163")
                 ELSE pruneLoop(s1)

\* mutant of prune: counts the call but drops nothing from S
pruneNoLoop(self) ==
    IF ~Ok(self) THEN self
    ELSE [self EXCEPT !.pruneCount = @ + 1]

prune(self) ==
    IF ~Ok(self) THEN self
    ELSE pruneLoop([self EXCEPT !.pruneCount = @ + 1])

\* mutant of evictQentryLRU: the popped entry is left resident
evictQentryLRUKeepsResident(self) ==
    IF ~Ok(self) THEN self
    ELSE IF ~(self.hirs * Scale >= self.maxhirs) THEN Raise(self, "assert167")
    ELSE LET s1 == popQentryLRU(self) IN
         IF ~Ok(s1) THEN s1
         ELSE LET key == Head(self.Q)
                  entry == s1.entries[key]
              IN IF ~(entry.flag = HIR /\ entry.resident)
                 THEN Raise(s1, "assert169")
                 ELSE LET s2 == [s1 EXCEPT !.evicted = key] IN
                      IF s2.hirs * Scale <= s2.maxhirs THEN s2
                      ELSE Raise(s2, "assert171")

\* evict the LRU entry from Q and mark it non-resident
evictQentryLRU(self) ==
    IF ~Ok(self) THEN self
    ELSE IF ~(self.hirs * Scale >= self.maxhirs) THEN Raise(self, "assert167")
    ELSE LET s1 == popQentryLRU(self) IN
         IF ~Ok(s1) THEN s1
         ELSE LET key == Head(self.Q)
                  entry == s1.entries[key]
              IN IF ~(entry.flag = HIR /\ entry.resident)
                 THEN Raise(s1, "assert169")
                 ELSE LET s2 == [s1 EXCEPT !.entries[key].resident = FALSE,
                                           !.evicted = key] IN
                      IF s2.hirs * Scale <= s2.maxhirs THEN s2
                      ELSE Raise(s2, "assert171")

\* index of the first HIR entry of S from the LRU end, 0 if there is none
RECURSIVE firstHIR(_, _)
firstHIR(self, i) ==
    IF i > Len(self.S) THEN 0
    ELSE IF self.entries[self.S[i]].flag = HIR THEN i
    ELSE firstHIR(self, i + 1)

\* mutant of shrink: the LRU entry of S is removed, whatever its flag
shrinkPopsLRU(self) ==
    IF ~Ok(self) THEN self
    ELSE LET s1 == IF Len(self.S) * Scale > self.maxSlength
                   THEN [self EXCEPT !.S = Tail(@), !.shrunk = Head(self.S)]
                   ELSE self
         IN IF Len(s1.S) * Scale <= s1.maxSlength THEN s1
            ELSE Raise(s1, "assert183")

\* mutant of shrink: nothing is removed from S
shrinkRemovesNothing(self) ==
    IF ~Ok(self) THEN self
    ELSE IF Len(self.S) * Scale <= self.maxSlength THEN self
    ELSE Raise(self, "assert183")

\* ensure that the size of S is at most self.maxSlength
shrink(self) ==
    IF ~Ok(self) THEN self
    ELSE LET i == firstHIR(self, 1)
             s1 == IF Len(self.S) * Scale > self.maxSlength /\ i # 0
                   THEN [self EXCEPT !.S = Without(@, self.S[i]),
                                     !.shrunk = self.S[i]]
                   ELSE self
         IN IF Len(s1.S) * Scale <= s1.maxSlength THEN s1
            ELSE Raise(s1, "assert183")

\* processReference, lines 72-98 : key in S
refInS(self, key) ==
    LET entry == self.entries[key]
        s1 == removeFromS(self, key)
    IN IF entry.flag = HIR
       THEN LET s2 == IF entry.resident
                      THEN [removeFromQ(s1, key) EXCEPT !.hit = TRUE]
                      ELSE [s1 EXCEPT !.hit = FALSE]
                s3 == IF Ok(s2) /\ s2.hirs * Scale >= s2.maxhirs
                      THEN evictQentryLRU(s2) ELSE s2
                s4 == IF Ok(s3)
                      THEN [s3 EXCEPT !.entries[key].flag = LIR,
                                      !.entries[key].resident = TRUE]
                      ELSE s3
                s5 == IF Ok(s4) /\ ~(s4.hirs * Scale <= s4.maxhirs)
                      THEN Raise(s4, "assert92") ELSE s4
            IN prune(migrateLIRtoHIR(s5))
       ELSE LET s2 == [s1 EXCEPT !.hit = TRUE] IN
            IF Ok(s2) /\ ~(entry.flag = LIR /\ entry.resident)
            THEN Raise(s2, "assert97")
            ELSE prune(s2)

\* mutant of refInQ: the entry is not moved to the MRU position of Q
refInQNoTouch(self, key) ==
    LET entry == self.entries[key]
        s1 == [self EXCEPT !.hit = TRUE]
    IN IF ~(entry.resident /\ entry.flag = HIR)
       THEN Raise(s1, "assert104")
       ELSE s1

\* mutant of refInQ: a reference found in Q only is reported as a miss
refInQAsMiss(self, key) ==
    LET entry == self.entries[key]
        s1 == [self EXCEPT !.hit = FALSE]
    IN IF ~(entry.resident /\ entry.flag = HIR)
       THEN Raise(s1, "assert104")
       ELSE addQentryMRU(removeFromQ(s1, key), key)

\* processReference, lines 99-108 : key in Q only
refInQ(self, key) ==
    LET entry == self.entries[key]
        s1 == [self EXCEPT !.hit = TRUE]
    IN IF ~(entry.resident /\ entry.flag = HIR)
       THEN Raise(s1, "assert104")
       ELSE addQentryMRU(removeFromQ(s1, key), key)

\* processReference, lines 109-124 : key in neither
refMiss(self, key) ==
    LET s1 == [self EXCEPT !.hit = FALSE,
                           !.entries = (key :> Entry(key)) @@ @]
    IN IF s1.lirs * Scale < s1.maxlirs
       THEN [s1 EXCEPT !.entries[key].flag = LIR]
       ELSE LET s2 == IF s1.hirs * Scale >= s1.maxhirs
                      THEN evictQentryLRU(s1) ELSE s1
                s3 == addQentryMRU(s2, key)
            IN IF Ok(s3) /\ ~(s3.entries[key].flag = HIR
                              /\ s3.entries[key].resident)
               THEN Raise(s3, "assert124")
               ELSE s3

\* processReference, lines 125-136
refFinish(self, key) ==
    LET s1 == addSentryMRU(self, key)
        s2 == IF ~Ok(s1) THEN s1
              ELSE IF s1.S = <<>> THEN Raise(s1, "StopIteration222")
              ELSE IF s1.entries[Head(s1.S)].flag # LIR
                   THEN Raise(s1, "assert129")
              ELSE s1
        s3 == shrink(s2)
    IN IF ~Ok(s3) THEN s3
       ELSE [s3 EXCEPT !.recordLirs = Max(@, Len(s3.S)),
                       !.misses = IF s3.hit THEN @ ELSE @ + 1,
                       !.ret = IF s3.hit THEN "True" ELSE "False"]

\* entries no longer held by S or Q are unreachable
Collect(self) ==
    [self EXCEPT !.entries =
        [k \in (DOMAIN @) \cap (KeysOf(self.S) \cup KeysOf(self.Q)) |-> @[k]]]

\* mutant of repeatedReference: the repeat is reported and counted as a miss
repeatedReferenceAsMiss(self) ==
    [self EXCEPT !.ret = "False", !.misses = @ + 1]

\* mutant of repeatedReference: the repeat forgets the last key
repeatedReferenceForgets(self) == [self EXCEPT !.ret = "True", !.lastKey = None]

\* processReference, lines 67-68 : key == self.lastKey
repeatedReference(self) == [self EXCEPT !.ret = "True"]

\* mutant of processReference: a repeated key is not counted in refs
processReferenceRepeatUncounted(self, key) ==
    IF key = self.lastKey THEN repeatedReference(self)
    ELSE LET s1 == [self EXCEPT !.refs = @ + 1, !.lastKey = key, !.hit = FALSE]
             s2 == IF key \in KeysOf(s1.S) THEN refInS(s1, key)
                   ELSE IF key \in KeysOf(s1.Q) THEN refInQ(s1, key)
                   ELSE refMiss(s1, key)
             s3 == refFinish(s2, key)
         IN Collect(IF Ok(s3) THEN s3 ELSE [s3 EXCEPT !.ret = "raised"])

\* processes reference through LIRS
\* returns True on a hit and False on a miss
processReference(self, key) ==
    LET s0 == [self EXCEPT !.refs = @ + 1] IN
    IF key = s0.lastKey THEN repeatedReference(s0)
    ELSE LET s1 == [s0 EXCEPT !.lastKey = key, !.hit = FALSE]
             s2 == IF key \in KeysOf(s1.S) THEN refInS(s1, key)
                   ELSE IF key \in KeysOf(s1.Q) THEN refInQ(s1, key)
                   ELSE refMiss(s1, key)
             s3 == refFinish(s2, key)
         IN Collect(IF Ok(s3) THEN s3 ELSE [s3 EXCEPT !.ret = "raised"])

\* processReference without lines 67-68: the engine that omits the lastKey
\* short-circuit, so that a repeated key goes through lines 70-136
processReferenceNoShortCircuit(self, key) ==
    LET s1 == [self EXCEPT !.refs = @ + 1, !.lastKey = key, !.hit = FALSE]
        s2 == IF key \in KeysOf(s1.S) THEN refInS(s1, key)
              ELSE IF key \in KeysOf(s1.Q) THEN refInQ(s1, key)
              ELSE refMiss(s1, key)
        s3 == refFinish(s2, key)
    IN Collect(IF Ok(s3) THEN s3 ELSE [s3 EXCEPT !.ret = "raised"])

\* the engine object as a record
Self ==
    [c |-> c, lirs |-> lirs, hirs |-> hirs, maxhirs |-> maxhirs,
     maxlirs |-> maxlirs, S |-> S, Q |-> Q, entries |-> entries,
     refs |-> refs, misses |-> misses, lastKey |-> lastKey,
     recordLirs |-> recordLirs, pruneCount |-> pruneCount,
     sizeLimitFactor |-> sizeLimitFactor, maxSlength |-> maxSlength,
     err |-> err, hit |-> FALSE, ret |-> ret,
     evicted |-> None, shrunk |-> None]

Becomes(r) ==
    /\ c' = r.c /\ lirs' = r.lirs /\ hirs' = r.hirs
    /\ maxhirs' = r.maxhirs /\ maxlirs' = r.maxlirs
    /\ S' = r.S /\ Q' = r.Q /\ entries' = r.entries
    /\ refs' = r.refs /\ misses' = r.misses /\ lastKey' = r.lastKey
    /\ recordLirs' = r.recordLirs /\ pruneCount' = r.pruneCount
    /\ sizeLimitFactor' = r.sizeLimitFactor /\ maxSlength' = r.maxSlength
    /\ err' = r.err /\ ret' = r.ret
    /\ evicted' = r.evicted /\ shrunk' = r.shrunk

\* alg = LIRS(cacheSize, sizeLimitFactor, hirPercent)
Construct(cacheSize, factor, hirPercent) ==
    LET r == LIRS__init__(cacheSize, factor, hirPercent) IN
    /\ c = r.c /\ lirs = r.lirs /\ hirs = r.hirs
    /\ maxhirs = r.maxhirs /\ maxlirs = r.maxlirs
    /\ S = r.S /\ Q = r.Q /\ entries = r.entries
    /\ refs = r.refs /\ misses = r.misses /\ lastKey = r.lastKey
    /\ recordLirs = r.recordLirs /\ pruneCount = r.pruneCount
    /\ sizeLimitFactor = r.sizeLimitFactor /\ maxSlength = r.maxSlength
    /\ err = r.err /\ ret = r.ret
    /\ evicted = r.evicted /\ shrunk = r.shrunk
    /\ calls = 0 /\ returnedFalse = 0 /\ lastArg = None
    /\ branch = "nocall"

\* the branch processReference(key) takes in the current state:
\* the tests of lines 67, 72, 76, 99 and 109
Branch(key) ==
    IF key = lastKey THEN "repeat"
    ELSE IF key \in KeysOf(S)
         THEN (IF entries[key].flag = HIR THEN "inS_HIR" ELSE "inS_LIR")
    ELSE IF key \in KeysOf(Q) THEN "inQ"
    ELSE "miss"

\* alg.processReference(block), one call of the driver loop
Reference(key) ==
    /\ err = "none"
    /\ LET r == processReference(Self, key) IN
       /\ Becomes(r)
       /\ calls' = calls + 1
       /\ returnedFalse' = IF r.ret = "False" THEN returnedFalse + 1
                           ELSE returnedFalse
       /\ lastArg' = key
       /\ branch' = Branch(key)

Init ==
    \E cacheSize \in CacheSizes, factor \in StackFactors,
       hirPercent \in HirPercents :
        Construct(cacheSize, factor, hirPercent)

ProcessTrace ==
    /\ refs < MaxRefs
    /\ \E key \in BlockKeys : Reference(key)

Next == ProcessTrace

Spec == Init /\ [][Next]_vars

\* End-to-end scenario 4: C = 200, sizeLimitFactor = 2.0, hirPercent = 1,
\* trace 1..201, 1..201
ScenarioKeys == MIN_CACHE_SIZE + 1
ScenarioLen == 2 * ScenarioKeys
ScenarioKey(i) == ((i - 1) % ScenarioKeys) + 1

InitScenario4 ==
    Construct(MIN_CACHE_SIZE, DEFAULT_STACK_FACTOR * Scale, DEFAULT_HIR_PCT)

NextScenario4 ==
    /\ calls < ScenarioLen
    /\ Reference(ScenarioKey(calls + 1))

SpecScenario4 == InitScenario4 /\ [][NextScenario4]_vars


(***************************************************************************)
(* Properties                                                              *)
(***************************************************************************)

\* the block `key` occupies a cache slot: it has an entry in S or Q with
\* resident = true
Resident(key) == key \in DOMAIN entries /\ entries[key].resident

ResidentKeys == {k \in DOMAIN entries : entries[k].resident}

\* C1: a call that returns, returns True exactly when its key was resident
\* immediately before the call (lastKey short-circuit included).
C1_HitIffResident ==
    [][ret' \in {"True", "False"}
        => ((ret' = "True") <=> Resident(lastArg'))]_vars

\* a hit has been returned while S holds a non-resident block
C1_Witness ==
    /\ ret = "True" /\ err = "none"
    /\ \E k \in KeysOf(S) : ~entries[k].resident

\* C2 (as claimed): the number of resident entries never exceeds the cache
\* size, whatever cacheSize and hirPercent the constructor was given.
C2_ResidentAtMostC == Cardinality(ResidentKeys) <= c

\* C3 (as claimed): lirs <= maxlirs and hirs <= maxhirs after every reference.
C3_CountersWithinLimits == lirs * Scale <= maxlirs /\ hirs * Scale <= maxhirs

\* C4: |S| <= maxSlength after every reference, for every sizeLimitFactor
\* >= 1.0, and the final assertion of shrink never fails.
C4_StackBounded == Len(S) * Scale <= maxSlength /\ err # "assert183"

\* with sizeLimitFactor = 1.0 the last call's shrink removed an entry from a
\* stack that had grown past C
C4_Witness ==
    /\ sizeLimitFactor = Scale /\ shrunk # None /\ err = "none"
    /\ Len(S) = c

\* C5: when maxlirs >= 1, after every processReference call S is non-empty and
\* its LRU entry is LIR; S is empty only before the first reference.
C5_BottomIsLIR ==
    (maxlirs >= Scale /\ calls >= 1)
        => (S # <<>> /\ entries[Head(S)].flag = LIR)

\* a reference to the only LIR block pruned every HIR entry out of S
C5_Witness ==
    /\ maxlirs >= Scale /\ err = "none" /\ pruneCount >= 1
    /\ Len(S) = 1 /\ Len(Q) >= 2 /\ entries[Head(S)].flag = LIR

\* C6 (as claimed): no assertion fails and no pop/peek hits an empty S or Q,
\* for every valid configuration, hirPercent = 100 included.
C6_NoAssertionFails == err = "none"

\* the four states an entry held by S or Q may be in
EntryStateOK(k) ==
    LET e == entries[k]
        inS == k \in KeysOf(S)
        inQ == k \in KeysOf(Q)
    IN \/ e.flag = LIR /\ e.resident /\ inS /\ ~inQ
       \/ e.flag = HIR /\ e.resident /\ inS /\ inQ
       \/ e.flag = HIR /\ ~e.resident /\ inS /\ ~inQ
       \/ e.flag = HIR /\ e.resident /\ ~inS /\ inQ

\* C7: after every reference every entry held by S or Q is in exactly one of
\* the four states (LIR,resident,S,-), (HIR,resident,S,Q), (HIR,non-resident,
\* S,-), (HIR,resident,-,Q).
C7_EntryStates ==
    /\ DOMAIN entries = KeysOf(S) \cup KeysOf(Q)
    /\ \A k \in DOMAIN entries : EntryStateOK(k)

\* all four states occur at once
C7_Witness ==
    /\ err = "none"
    /\ \E k \in KeysOf(S) : entries[k].flag = LIR
    /\ \E k \in KeysOf(S) \cap KeysOf(Q) : entries[k].flag = HIR
    /\ \E k \in KeysOf(S) : ~entries[k].resident
    /\ \E k \in KeysOf(Q) : k \notin KeysOf(S)

\* C8: a call whose key equals the key of the immediately preceding call
\* returns True and changes nothing but refs, which grows by one.
C8_RepeatIsIdempotent ==
    [][(calls >= 1 /\ calls' = calls + 1 /\ lastArg' = lastArg)
        => /\ ret' = "True"
           /\ refs' = refs + 1
           /\ UNCHANGED <<S, Q, entries, lirs, hirs, misses, pruneCount,
                          recordLirs, lastKey>>]_vars

\* one miss followed by repeats of the same key only
C8_Witness ==
    /\ refs >= 3 /\ misses = 1 /\ pruneCount = 0 /\ Len(S) = 1
    /\ ret = "True"

\* C9: refs is the number of calls made, misses the number of calls that
\* returned False, and 0 <= misses <= refs.
C9_Counters ==
    /\ refs = calls
    /\ misses = returnedFalse
    /\ 0 <= misses /\ misses <= refs

\* both hits and misses have been counted
C9_Witness == refs >= 4 /\ misses >= 2 /\ misses < refs /\ err = "none"


\* C10 (as claimed): scenario 4 ends with refs = 402 and misses = 202.
C10_Scenario4AsClaimed ==
    calls = ScenarioLen => (refs = 402 /\ misses = 202)

\* C10 (amended): scenario 4 runs to its end without raising and ends with
\* refs = 402 and misses = 204: in the second pass blocks 199, 200 and 201
\* all miss, the reference to 198 having pruned them out of S.
C10_Scenario4 ==
    /\ err = "none"
    /\ calls = ScenarioLen => (refs = 402 /\ misses = 204)

\* the whole trace has been processed
C10_Witness == calls = ScenarioLen /\ err = "none" /\ ret = "False"


Last(od) == od[Len(od)]

\* a call was made in this step
Called == calls' = calls + 1

\* C11: after every reference lirs is the number of LIR entries in S and hirs
\* is the number of entries in Q.
C11_CountersMatchContainers ==
    /\ lirs = Cardinality({k \in KeysOf(S) : entries[k].flag = LIR})
    /\ hirs = Cardinality(KeysOf(Q))
    /\ hirs = Len(Q)

\* LIR entries, resident HIR entries and a non-resident HIR entry are held
C11_Witness ==
    /\ err = "none" /\ lirs >= 1 /\ hirs >= 2
    /\ \E k \in KeysOf(S) : ~entries[k].resident
    /\ \E k \in KeysOf(Q) : k \notin KeysOf(S)

\* C12: a reference (not a repeat) to a key whose entry is HIR in S returns;
\* the entry is then LIR, resident, at the MRU of S and not in Q; the entry
\* that was the LRU of S once the key was removed is HIR, resident, at the MRU
\* of Q and not in S; lirs is unchanged; the call is a hit exactly when the
\* key was resident.
C12_PromotionInS ==
    [][(Called /\ Branch(lastArg') = "inS_HIR")
        => LET k == lastArg'
               m == Head(Without(S, k))
           IN /\ err' = "none"
              /\ entries'[k].flag = LIR /\ entries'[k].resident
              /\ Last(S') = k /\ k \notin KeysOf(Q')
              /\ entries[m].flag = LIR
              /\ entries'[m].flag = HIR /\ entries'[m].resident
              /\ Last(Q') = m /\ m \notin KeysOf(S')
              /\ lirs' = lirs
              /\ (ret' = "True") <=> entries[k].resident
              /\ (ret' = "False") <=> ~entries[k].resident]_vars

\* a non-resident HIR entry of S has just been promoted
C12_Witness ==
    /\ branch = "inS_HIR" /\ ret = "False" /\ err = "none"
    /\ entries[lastArg].flag = LIR /\ Len(Q) >= 1


\* the engine at the point where processReference(key) calls evictQentryLRU:
\* line 88 (key found in S as HIR, already removed from S and, if resident,
\* from Q) or line 122 (key in neither, its Entry just created)
EvictPoint(key) ==
    IF key \in KeysOf(S)
    THEN (IF entries[key].resident
          THEN removeFromQ(removeFromS(Self, key), key)
          ELSE removeFromS(Self, key))
    ELSE [Self EXCEPT !.entries = (key :> Entry(key)) @@ @]

\* C13: evictQentryLRU removes exactly the LRU entry of Q, makes that entry
\* non-resident, decrements hirs by one and leaves S (and every other entry)
\* as it was; a reference to a key that is in S as a non-resident HIR is a
\* miss that promotes it to LIR.
C13_QEviction ==
    [][Called
        => /\ (evicted' # None)
                => \E p \in {EvictPoint(lastArg')} :
                   \E r \in {evictQentryLRU(p)} :
                   \E e \in {Head(p.Q)} :
                      /\ p.Q # <<>> /\ evicted' = e /\ r.err = "none"
                      /\ r.Q = Tail(p.Q) /\ e \notin KeysOf(r.Q)
                      /\ r.hirs = p.hirs - 1
                      /\ r.S = p.S /\ r.lirs = p.lirs
                      /\ p.entries[e].flag = HIR /\ p.entries[e].resident
                      /\ r.entries[e].flag = HIR /\ ~r.entries[e].resident
                      /\ \A k \in DOMAIN p.entries \ {e} :
                            r.entries[k] = p.entries[k]
                      /\ e \in DOMAIN entries' => ~entries'[e].resident
                      /\ e \notin KeysOf(Q')
           /\ (lastArg' \in KeysOf(S) /\ ~entries[lastArg'].resident)
                => /\ ret' = "False"
                   /\ entries'[lastArg'].flag = LIR
                   /\ entries'[lastArg'].resident
                   /\ lastArg' \in KeysOf(S')]_vars

\* the entry just evicted from Q is still in S, as a non-resident HIR
C13_Witness ==
    /\ evicted # None /\ err = "none"
    /\ evicted \in KeysOf(S) /\ evicted \notin KeysOf(Q)
    /\ entries[evicted].flag = HIR /\ ~entries[evicted].resident

\* C14: a reference (not a repeat) to a key that is in Q but not in S is a
\* hit; its entry stays HIR and resident and is at the MRU of Q and of S;
\* lirs and hirs are unchanged, nothing is evicted and the other entries of Q
\* keep their order.
C14_HitInQ ==
    [][(Called /\ Branch(lastArg') = "inQ")
        => LET k == lastArg'
           IN /\ ret' = "True" /\ err' = "none"
              /\ entries'[k].flag = HIR /\ entries'[k].resident
              /\ Last(Q') = k /\ Last(S') = k
              /\ lirs' = lirs /\ hirs' = hirs /\ misses' = misses
              /\ evicted' = None
              /\ ResidentKeys' = ResidentKeys
              /\ Without(Q', k) = Without(Q, k)]_vars

\* a key found in Q only has been moved over another entry of Q
C14_Witness ==
    /\ branch = "inQ" /\ ret = "True" /\ err = "none"
    /\ Len(Q) >= 2 /\ Last(Q) = lastArg /\ Last(S) = lastArg


\* C15 (as claimed): a reference to a key in neither S nor Q is a miss and
\* creates a resident entry: LIR, in S only and Q untouched when lirs <
\* maxlirs; otherwise HIR, at the MRU of Q and of S, the LRU of Q being
\* evicted first exactly when hirs >= maxhirs.
C15_MissCreatesEntry ==
    [][(Called /\ Branch(lastArg') = "miss")
        => LET k == lastArg'
           IN /\ ret' = "False" /\ misses' = misses + 1
              /\ k \in DOMAIN entries' /\ entries'[k].resident
              /\ Last(S') = k
              /\ IF lirs * Scale < maxlirs
                 THEN /\ entries'[k].flag = LIR
                      /\ k \notin KeysOf(Q') /\ Q' = Q
                      /\ evicted' = None
                 ELSE /\ entries'[k].flag = HIR
                      /\ (evicted' # None) <=> (hirs * Scale >= maxhirs)
                      /\ evicted' # None => evicted' = Head(Q)
                      /\ Q' = Append(IF hirs * Scale >= maxhirs
                                     THEN Tail(Q) ELSE Q, k)]_vars

\* the engine at the point where processReference(key) calls shrink
\* (line 131), for a key that is not a repeat
ShrinkPoint(key) ==
    LET s1 == [Self EXCEPT !.refs = @ + 1, !.lastKey = key, !.hit = FALSE]
        s2 == IF key \in KeysOf(s1.S) THEN refInS(s1, key)
              ELSE IF key \in KeysOf(s1.Q) THEN refInQ(s1, key)
              ELSE refMiss(s1, key)
    IN addSentryMRU(s2, key)

\* C16: shrink removes at most one entry from S, and only when |S| >
\* maxSlength; the removed entry is the HIR entry closest to the LRU end;
\* Q, hirs, lirs and every flag and residency are unchanged, and the LRU of S
\* is still LIR.
C16_ShrinkFrame ==
    [][(Called /\ Branch(lastArg') # "repeat" /\ err' = "none")
        => \E p \in {ShrinkPoint(lastArg')} :
           \E r \in {shrink(p)} :
           \E gone \in {KeysOf(p.S) \ KeysOf(r.S)} :
              /\ r.S = S' /\ r.Q = Q' /\ r.shrunk = shrunk'
              /\ Cardinality(gone) <= 1
              /\ Len(r.S) = Len(p.S) - Cardinality(gone)
              /\ gone # {} => Len(p.S) * Scale > maxSlength
              /\ gone = {} => (r.S = p.S /\ shrunk' = None)
              /\ \A x \in gone :
                    /\ shrunk' = x
                    /\ p.entries[x].flag = HIR
                    /\ r.S = Without(p.S, x)
                    /\ \A i, j \in 1..Len(p.S) :
                          (p.S[i] = x /\ j < i)
                              => p.entries[p.S[j]].flag = LIR
              /\ r.Q = p.Q /\ r.hirs = p.hirs /\ r.lirs = p.lirs
              /\ r.entries = p.entries
              /\ r.entries[Head(r.S)].flag = LIR]_vars

\* shrink has just removed a resident HIR entry from S; it is still in Q
C16_Witness ==
    /\ shrunk # None /\ err = "none"
    /\ shrunk \notin KeysOf(S) /\ shrunk \in KeysOf(Q)
    /\ entries[Head(S)].flag = LIR


\* the two results agree on what the call returns and on S, Q, flags and
\* residency
SameOutcome(a, b) ==
    a.ret = b.ret /\ a.S = b.S /\ a.Q = b.Q /\ a.entries = b.entries

C18_EvictionOnlyWhenFull ==
    [][Called
        => \E lost \in {ResidentKeys \ ResidentKeys'} :
              /\ ret' = "True" => (lost = {} /\ evicted' = None)
              /\ ret' = "False"
                   => /\ Cardinality(lost) <= 1
                      /\ \A e \in lost : e = evicted' /\ e = Head(Q)
                      /\ evicted' # None => lost = {evicted'}
                      /\ lost # {} => Cardinality(ResidentKeys) = c]_vars

\* C19: after every processReference(k), k's entry is resident and is the MRU
\* entry of S; the shrink at the end of the call never removes it.
C19_ReferencedIsMRU ==
    calls >= 1
        => /\ S # <<>> /\ Last(S) = lastArg
           /\ Resident(lastArg)
           /\ shrunk # lastArg

\* shrink removed an entry in a call that inserted a HIR entry at the MRU
C19_Witness ==
    /\ shrunk # None /\ err = "none" /\ branch \in {"miss", "inQ"}
    /\ Last(S) = lastArg /\ entries[lastArg].flag = HIR

\* C20: lirs never decreases from one reference to the next; once it equals
\* maxlirs it stays equal to maxlirs; HIR entries exist only when lirs has
\* reached maxlirs.
C20_LirsMonotone ==
    [][/\ lirs' >= lirs
       /\ lirs * Scale = maxlirs => lirs' = lirs
       /\ (\E k \in DOMAIN entries' : entries'[k].flag = HIR)
             => lirs' * Scale >= maxlirs']_vars

\* a HIR entry of S was promoted and a LIR entry migrated in one call while
\* lirs stayed at maxlirs
C20_Witness ==
    /\ branch = "inS_HIR" /\ err = "none"
    /\ lirs * Scale = maxlirs /\ lirs >= 1 /\ hirs >= 1

====
